---- MODULE Spec2Model ----
(***************************************************************************)
(* venn-backend: the session voting and aggregation engine of              *)
(* src/server.js over the Mongoose models of src/models/Session.js.        *)
(*                                                                         *)
(* Every handler is an async function: between two awaits the code runs    *)
(* without interruption, and every await is one operation on the store.    *)
(* A handler is therefore split at its awaits; each action is one store    *)
(* operation together with the synchronous code that follows it.           *)
(*                                                                         *)
(* Store semantics (Mongoose, by the schema of src/models/Session.js):     *)
(*  - findById returns a private copy of the stored document;              *)
(*  - save() sends the changes made to that copy, not the whole document:  *)
(*    an array push is sent as $push and increments the version key __v,   *)
(*    a Map entry set inside an array element is sent as $set on that key  *)
(*    and is applied only if __v is still the one that was read;           *)
(*  - pushing a plain object onto a document array stores a cast copy of   *)
(*    it (the Map of the schema is built from the entries the plain Map    *)
(*    has at that moment); the plain object stays outside the document.    *)
(***************************************************************************)
EXTENDS Naturals, Sequences, FiniteSets

\* ------------------------------------------------------------ universe

Users == {"u1", "u2"}            \* ids of the stored users
GhostUser == "ux"                \* a well-formed id of no stored user
SessionIds == {"s1"}             \* ids of the sessions the store can hold
GhostSession == "sx"             \* a well-formed id of no stored session
Options == {"A", "B"}            \* optionIds a swipe ledger can hold
Missing == ""                    \* an absent (falsy) request field
Procs == {"p1", "p2"}            \* requests in flight at the same time

MaxUsers == 2                    \* cap on the length of session.users
MaxSwipes == 2                   \* cap on the length of session.swipes

Statuses == {"Pending", "Active", "Completed", "Cancelled"}
validActionAny == {"yes", "no", "maybe"}   \* a vote guard that lets every word pass
validAction == {"yes", "no"}
SwipeActions == {"yes", "no", "maybe"}

VARIABLES Session, User, req, res

vars == <<Session, User, req, res>>

NoDoc == [exists |-> FALSE]

\* ------------------------------------------------------------ helpers

Range(s) == {s[i] : i \in DOMAIN s}

\* Array.prototype.includes on session.users
Includes(seq, x) == \E i \in DOMAIN seq : seq[i] = x

\* The status word as stored.
ToLowerCaseSkipped(status) == status

\* String.prototype.toLowerCase on a status word
ToLowerCase(status) ==
  CASE status = "Pending" -> "pending"
    [] status = "Active" -> "active"
    [] status = "Completed" -> "completed"
    [] status = "Cancelled" -> "cancelled"

\* A Map of optionId -> vote is a sequence of entries in insertion order.
MapHas(m, k) == \E i \in DOMAIN m : m[i].optionId = k

MapGet(m, k) ==
  IF MapHas(m, k) THEN m[CHOOSE i \in DOMAIN m : m[i].optionId = k].vote ELSE "none"

\* Map.prototype.set: an existing key keeps its place, a new key goes last.
MapSet(m, k, v) ==
  IF MapHas(m, k)
  THEN [i \in DOMAIN m |-> IF m[i].optionId = k THEN [optionId |-> k, vote |-> v] ELSE m[i]]
  ELSE Append(m, [optionId |-> k, vote |-> v])

\* Array.prototype.find over session.swipes: index of the first record of
\* the user, 0 when there is none.
FindSwipe(swipes, userId) ==
  IF \E i \in DOMAIN swipes : swipes[i].userId = userId
  THEN CHOOSE i \in DOMAIN swipes :
         /\ swipes[i].userId = userId
         /\ \A j \in DOMAIN swipes : swipes[j].userId = userId => i <= j
  ELSE 0

\* ------------------------------------------------------------ requests

Idle ==
  [op |-> "none", pc |-> "idle", title |-> Missing, sessionId |-> Missing,
   userId |-> Missing, optionId |-> Missing, swipeAction |-> Missing,
   users |-> <<>>, idx |-> 0, v |-> 0, optionSwipes |-> <<>>, dirty |-> FALSE]

NoBody == [users |-> <<>>, swipes |-> <<>>, unanimousResults |-> <<>>, allResults |-> <<>>]

\* A response, with the request it answers: of the request, the fields the
\* handler had looked at when it answered.
Response(r, status, text, body) ==
  [status |-> status, text |-> text, body |-> body,
   req |-> [Idle EXCEPT !.op = r.op, !.sessionId = r.sessionId, !.userId = r.userId,
                        !.optionId = r.optionId, !.swipeAction = r.swipeAction]]

NoResponse == [status |-> 0, text |-> <<>>, body |-> NoBody, req |-> Idle]

\* The server runs one piece of synchronous code at a time: a response is
\* written and sent before the next piece runs.
Ready == res = NoResponse

\* res.status(..).json(..) ends the request of p; the other requests go on
\* as in reqs.
Reply(p, reqs, status, text, body) ==
  /\ res' = Response(req[p], status, text, body)
  /\ req' = [reqs EXCEPT ![p] = Idle]

\* The requests in flight that will push onto session.users, and onto
\* session.swipes, of session s, and those that will create a session. A
\* request that would push past a cap is not taken up.
JoinsInFlight(s) ==
  Cardinality({q \in Procs : req[q].op = "join" /\ req[q].pc = "save" /\ req[q].sessionId = s})

PushesInFlight(s) ==
  Cardinality({q \in Procs : /\ req[q].op = "swipe" /\ req[q].pc = "save"
                             /\ req[q].sessionId = s /\ req[q].idx = 0})

CreatesInFlight ==
  Cardinality({q \in Procs : req[q].op = "create" /\ req[q].pc = "create"})

\* ------------------------------------------------------------ the store

SeedDoc(status) ==
  [exists |-> TRUE, title |-> "Test", createdBy |-> Missing, users |-> <<>>,
   options |-> <<>>, status |-> status, swipes |-> <<>>, v |-> 0]

\* The store when the server starts: no session yet, or one session put
\* there as new Session({ title, status }) with no users and no swipes.
\* Pending is the status CreateSession gives; the others come from outside.
Init ==
  /\ \/ Session = [s \in SessionIds |-> NoDoc]
     \/ \E status \in Statuses \ {"Pending"} :
          Session = [s \in SessionIds |-> SeedDoc(status)]
  /\ User = [u \in Users |-> [createdSessions |-> <<>>, joinedSessions |-> <<>>]]
  /\ req = [p \in Procs |-> Idle]
  /\ res = NoResponse

\* ------------------------------------------------------------ POST /create-session

\* A Session.create that leaves the creator out of users.
NewSessionNoMember(title, userId) ==
  [exists |-> TRUE, title |-> title, createdBy |-> userId, users |-> <<>>,
   options |-> <<>>, status |-> "Pending", swipes |-> <<>>, v |-> 0]

\* Session.create({...}) of the handler
NewSession(title, userId) ==
  [exists |-> TRUE, title |-> title, createdBy |-> userId, users |-> <<userId>>,
   options |-> <<>>, status |-> "Pending", swipes |-> <<>>, v |-> 0]

\* Field validation and User.findById.
CreateSession(p, title, userId) ==
  /\ Ready
  /\ req[p].pc = "idle"
  /\ LET r == [Idle EXCEPT !.op = "create", !.pc = "create", !.title = title, !.userId = userId]
     IN /\ UNCHANGED <<Session, User>>
        /\ IF title = Missing \/ userId = Missing
           THEN /\ res' = Response([Idle EXCEPT !.op = "create"], 400,
                            <<"Invalid title or user ID">>, NoBody)
                /\ UNCHANGED req
           ELSE IF userId \notin Users
           THEN /\ res' = Response(r, 404, <<"User doesn't exist">>, NoBody)
                /\ UNCHANGED req
           ELSE /\ CreatesInFlight < Cardinality({s \in SessionIds : ~Session[s].exists})
                /\ req' = [req EXCEPT ![p] = r]
                /\ UNCHANGED res

\* Session.create: a new document under a fresh id.
CreateSessionDoc(p) ==
  /\ Ready
  /\ req[p].op = "create" /\ req[p].pc = "create"
  /\ \E s \in SessionIds :
       /\ ~Session[s].exists
       /\ Session' = [Session EXCEPT ![s] = NewSession(req[p].title, req[p].userId)]
       /\ req' = [req EXCEPT ![p].pc = "usave", ![p].sessionId = s]
  /\ UNCHANGED <<User, res>>

\* user.createdSessions.push(session._id); user.save(); the 201 response.
CreateSessionUserSave(p) ==
  /\ Ready
  /\ req[p].op = "create" /\ req[p].pc = "usave"
  /\ User' = [User EXCEPT ![req[p].userId].createdSessions = Append(@, req[p].sessionId)]
  /\ Reply(p, req, 201, <<"Session was created successfully">>,
           [NoBody EXCEPT !.users = <<req[p].userId>>])
  /\ UNCHANGED Session

\* ------------------------------------------------------------ POST /join-session

\* A save() that writes back the users of the copy that was read.
SaveUsersReplace(stored, snapshot, userId) == Append(snapshot, userId)

\* What session.save() does to the stored users after session.users.push:
\* $push onto the stored array.
SaveUsersPush(stored, snapshot, userId) == Append(stored, userId)

\* A join handler that pushes and saves before it looks whether the user is
\* in the session already.
JoinSessionEager(p, sessionId, userId) ==
  /\ Ready
  /\ req[p].pc = "idle"
  /\ sessionId \in SessionIds /\ Session[sessionId].exists /\ userId \in Users
  /\ Session[sessionId].status \notin {"Completed", "Cancelled"}
  /\ Len(Session[sessionId].users) < MaxUsers
  /\ Session' = [Session EXCEPT ![sessionId].users = Append(@, userId),
                                ![sessionId].v = @ + 1]
  /\ LET r == [Idle EXCEPT !.op = "join", !.pc = "usave",
                           !.sessionId = sessionId, !.userId = userId]
     IN IF Includes(Session[sessionId].users, userId)
        THEN /\ res' = Response(r, 400, <<"User is already in the session">>, NoBody)
             /\ UNCHANGED req
        ELSE /\ req' = [req EXCEPT ![p] = [r EXCEPT !.users = Session[sessionId].users]]
             /\ UNCHANGED res
  /\ UNCHANGED User

\* Field validation, Session.findById, the status guard, User.findById and
\* the membership guard on the copy that was read. No handler removes a
\* user, so what User.findById returns does not depend on when it runs and
\* its await is not a step of its own.
JoinSession(p, sessionId, userId) ==
  /\ Ready
  /\ req[p].pc = "idle"
  /\ LET r == [Idle EXCEPT !.op = "join", !.pc = "save",
                           !.sessionId = sessionId, !.userId = userId]
     IN /\ UNCHANGED <<Session, User>>
        /\ IF sessionId = Missing \/ userId = Missing
           THEN /\ res' = Response([Idle EXCEPT !.op = "join"], 400,
                            <<"sessionID and userID are required">>, NoBody)
                /\ UNCHANGED req
           ELSE IF sessionId \notin SessionIds \/ ~Session[sessionId].exists
           THEN /\ res' = Response([Idle EXCEPT !.op = "join", !.sessionId = sessionId], 404,
                            <<"Session doesn't exist">>, NoBody)
                /\ UNCHANGED req
           ELSE IF Session[sessionId].status \in {"Completed", "Cancelled"}
           THEN /\ res' = Response([Idle EXCEPT !.op = "join", !.sessionId = sessionId], 400,
                            <<"Cannot join a", ToLowerCase(Session[sessionId].status), "session">>,
                            NoBody)
                /\ UNCHANGED req
           ELSE IF userId \notin Users
           THEN /\ res' = Response(r, 404, <<"User doesn't exist">>, NoBody)
                /\ UNCHANGED req
           ELSE IF Includes(Session[sessionId].users, userId)
           THEN /\ res' = Response(r, 400, <<"User is already in the session">>, NoBody)
                /\ UNCHANGED req
           ELSE /\ Len(Session[sessionId].users) + JoinsInFlight(sessionId) < MaxUsers
                /\ req' = [req EXCEPT ![p] = [r EXCEPT !.users = Session[sessionId].users]]
                /\ UNCHANGED res

\* A join handler that saves the user's list where it should save the
\* session.
JoinSaveUserFirst(p) ==
  /\ Ready
  /\ req[p].op = "join" /\ req[p].pc = "save"
  /\ User' = [User EXCEPT ![req[p].userId].joinedSessions = Append(@, req[p].sessionId)]
  /\ req' = [req EXCEPT ![p].pc = "usave"]
  /\ UNCHANGED <<Session, res>>

\* A join whose save also makes the session active.
JoinSaveActivates(p) ==
  /\ Ready
  /\ req[p].op = "join" /\ req[p].pc = "save"
  /\ LET s == req[p].sessionId IN
       /\ Session' = [Session EXCEPT
                        ![s].users = Append(@, req[p].userId),
                        ![s].status = "Active",
                        ![s].v = @ + 1]
       /\ req' = [req EXCEPT ![p].pc = "usave"]
  /\ UNCHANGED <<User, res>>

\* session.users.push(userId); session.save()
JoinSave(p) ==
  /\ Ready
  /\ req[p].op = "join" /\ req[p].pc = "save"
  /\ LET s == req[p].sessionId IN
       /\ Session' = [Session EXCEPT
                        ![s].users = SaveUsersPush(@, req[p].users, req[p].userId),
                        ![s].v = @ + 1]
       /\ req' = [req EXCEPT ![p].pc = "usave"]
  /\ UNCHANGED <<User, res>>

\* user.joinedSessions.push(session._id); user.save(); the 200 response.
JoinUserSave(p) ==
  /\ Ready
  /\ req[p].op = "join" /\ req[p].pc = "usave"
  /\ User' = [User EXCEPT ![req[p].userId].joinedSessions = Append(@, req[p].sessionId)]
  /\ Reply(p, req, 200, <<"User successfully joined session">>,
           [NoBody EXCEPT !.users = Append(req[p].users, req[p].userId)])
  /\ UNCHANGED Session


\* ------------------------------------------------------------ POST /swipe-option

\* The plain object { userId, optionSwipes: new Map() } of the handler.
NewUserSwipe(userId) == [userId |-> userId, optionSwipes |-> <<>>]

\* session.swipes.push(userSwipe): the element the document array takes in
\* is the cast of the plain object as it is at the push, with an empty Map.
\* The optionSwipes.set that follows acts on the plain object, which the
\* response reads, not on the element.
PushedSwipe(userId, optionId, swipeAction) == NewUserSwipe(userId)

\* What session.save() does to the stored swipes after optionSwipes.set on
\* the record found at idx: $set of that one key.
SaveSwipeSet(stored, idx, optionId, swipeAction) ==
  [stored EXCEPT ![idx].optionSwipes = MapSet(@, optionId, swipeAction)]

\* What the handler holds after the lookup of the user's record and
\* optionSwipes.set on the copy it read: the index of the record (0: a new
\* plain object was pushed), the __v read, the Map the response will show
\* and whether the copy now differs from what was read.
SwipeLocals(session, userId, optionId, swipeAction) ==
  LET idx == FindSwipe(session.swipes, userId)
      old == IF idx = 0 THEN NewUserSwipe(userId).optionSwipes
                        ELSE session.swipes[idx].optionSwipes
  IN [idx |-> idx, v |-> session.v,
      optionSwipes |-> MapSet(old, optionId, swipeAction),
      dirty |-> (idx = 0 \/ MapGet(old, optionId) # swipeAction)]

\* session.save() on the stored document: the push of a new record, the
\* $set of one key (refused when __v has moved), or nothing to send.
SwipeStore(session, r) ==
  IF r.idx = 0
  THEN [ok |-> TRUE,
        session |-> [session EXCEPT
                       !.swipes = Append(@, PushedSwipe(r.userId, r.optionId, r.swipeAction)),
                       !.v = @ + 1]]
  ELSE IF ~r.dirty
  THEN [ok |-> TRUE, session |-> session]
  ELSE IF session.v # r.v
  THEN [ok |-> FALSE, session |-> session]
  ELSE [ok |-> TRUE,
        session |-> [session EXCEPT
                       !.swipes = SaveSwipeSet(@, r.idx, r.optionId, r.swipeAction)]]

\* Field validation, Session.findById, the membership and vote guards, the
\* lookup of the user's record and optionSwipes.set on the copy.
SwipeOption(p, sessionId, userId, optionId, swipeAction) ==
  /\ Ready
  /\ req[p].pc = "idle"
  /\ LET r == [Idle EXCEPT !.op = "swipe", !.pc = "save", !.sessionId = sessionId,
                           !.userId = userId, !.optionId = optionId,
                           !.swipeAction = swipeAction]
     IN /\ UNCHANGED <<Session, User>>
        /\ IF sessionId = Missing \/ userId = Missing \/ optionId = Missing
              \/ swipeAction = Missing
           THEN /\ res' = Response([Idle EXCEPT !.op = "swipe"], 400,
                            <<"session ID, user ID, option ID and swipe action are required">>,
                            NoBody)
                /\ UNCHANGED req
           ELSE IF sessionId \notin SessionIds \/ ~Session[sessionId].exists
           THEN /\ res' = Response([Idle EXCEPT !.op = "swipe", !.sessionId = sessionId], 404,
                            <<"Session doesn't exist">>, NoBody)
                /\ UNCHANGED req
           ELSE IF ~Includes(Session[sessionId].users, userId)
           THEN /\ res' = Response([Idle EXCEPT !.op = "swipe", !.sessionId = sessionId,
                                                !.userId = userId], 404,
                            <<"User is not in session">>, NoBody)
                /\ UNCHANGED req
           ELSE IF swipeAction \notin validAction
           THEN /\ res' = Response([r EXCEPT !.optionId = Missing], 400,
                            <<"Invalid swipe action">>, NoBody)
                /\ UNCHANGED req
           ELSE LET l == SwipeLocals(Session[sessionId], userId, optionId, swipeAction)
                IN /\ l.idx = 0 =>
                        Len(Session[sessionId].swipes) + PushesInFlight(sessionId) < MaxSwipes
                   /\ req' = [req EXCEPT ![p] =
                                [r EXCEPT !.idx = l.idx, !.v = l.v,
                                          !.optionSwipes = l.optionSwipes,
                                          !.dirty = l.dirty]]
                   /\ UNCHANGED res

\* session.save() and the response: 200 with the Map of the handler's
\* userSwipe, or 500 when save() throws.
SwipeSave(p) ==
  /\ Ready
  /\ req[p].op = "swipe" /\ req[p].pc = "save"
  /\ UNCHANGED User
  /\ LET s == req[p].sessionId
         out == SwipeStore(Session[s], req[p])
     IN /\ Session' = [Session EXCEPT ![s] = out.session]
        /\ IF out.ok
           THEN Reply(p, req, 200, <<"Swipe action recorded successfully">>,
                      [NoBody EXCEPT !.swipes = req[p].optionSwipes])
           ELSE Reply(p, req, 500, <<"Server error occured while recording swipe action">>,
                      NoBody)

\* ------------------------------------------------------------ GET /session-result

\* A count that stops at 1.
CountYesOnce(swipeCount, optionId) ==
  IF \E i \in DOMAIN swipeCount : swipeCount[i][1] = optionId
  THEN swipeCount
  ELSE Append(swipeCount, <<optionId, 1>>)

\* swipeCount.set(optionId, (swipeCount.get(optionId) || 0) + 1)
CountYes(swipeCount, optionId) ==
  IF \E i \in DOMAIN swipeCount : swipeCount[i][1] = optionId
  THEN [i \in DOMAIN swipeCount |->
          IF swipeCount[i][1] = optionId
          THEN <<optionId, swipeCount[i][2] + 1>> ELSE swipeCount[i]]
  ELSE Append(swipeCount, <<optionId, 1>>)

\* A count that takes every vote, yes or no.
RECURSIVE CountRecordAnyVote(_, _, _)
CountRecordAnyVote(swipeCount, optionSwipes, i) ==
  IF i > Len(optionSwipes) THEN swipeCount
  ELSE CountRecordAnyVote(CountYes(swipeCount, optionSwipes[i].optionId), optionSwipes, i + 1)

\* userSwipe.optionSwipes.forEach: the entries of one record, in order.
RECURSIVE CountRecord(_, _, _)
CountRecord(swipeCount, optionSwipes, i) ==
  IF i > Len(optionSwipes) THEN swipeCount
  ELSE CountRecord(IF optionSwipes[i].vote = "yes"
                   THEN CountYes(swipeCount, optionSwipes[i].optionId)
                   ELSE swipeCount,
                   optionSwipes, i + 1)

\* session.swipes.forEach: the records, in order. swipeCount is a Map: a
\* sequence of <<optionId, count>> in insertion order.
RECURSIVE CountSwipes(_, _, _)
CountSwipes(swipeCount, swipes, i) ==
  IF i > Len(swipes) THEN swipeCount
  ELSE CountSwipes(CountRecord(swipeCount, swipes[i].optionSwipes, 1), swipes, i + 1)

\* A comparison that takes any yes vote for agreement.
IsUnanimousAnyYes(count, userCount) == count > 0

\* A comparison that lets the count pass the number of users.
IsUnanimousAtLeast(count, userCount) == count >= userCount

\* count === userCount
IsUnanimous(count, userCount) == count = userCount

\* swipeCount.forEach: the optionIds whose count is userCount, in order.
RECURSIVE Unanimous(_, _, _)
Unanimous(swipeCount, userCount, i) ==
  IF i > Len(swipeCount) THEN <<>>
  ELSE (IF IsUnanimous(swipeCount[i][2], userCount) THEN <<swipeCount[i][1]>> ELSE <<>>)
       \o Unanimous(swipeCount, userCount, i + 1)

\* One entry put in its place among entries already sorted by count,
\* largest first, after the entries of equal count (the sort is stable).
RECURSIVE InsertSorted(_, _)
InsertSorted(sorted, e) ==
  IF sorted = <<>> THEN <<e>>
  ELSE IF e[2] > sorted[1][2] THEN <<e>> \o sorted
  ELSE <<sorted[1]>> \o InsertSorted(Tail(sorted), e)

\* The entries of swipeCount left in the order of the Map.
SortSkipped(swipeCount, i) == SubSeq(swipeCount, 1, i)

\* [...swipeCount].sort((a, b) => b[1] - a[1])
RECURSIVE Sort(_, _)
Sort(swipeCount, i) ==
  IF i = 0 THEN <<>> ELSE InsertSorted(Sort(swipeCount, i - 1), swipeCount[i])

\* The response computed from the document that was read.
ComputeResult(session) ==
  LET swipeCount == CountSwipes(<<>>, session.swipes, 1)
      userCount == Len(session.users)
      unanimousResults == Unanimous(swipeCount, userCount, 1)
      sortedSwipes == Sort(swipeCount, Len(swipeCount))
  IN IF Len(unanimousResults) > 0
     THEN [status |-> 200, text |-> <<"Unanimous decisions found">>,
           body |-> [NoBody EXCEPT !.unanimousResults = unanimousResults,
                                   !.allResults = sortedSwipes]]
     ELSE IF Len(sortedSwipes) = 0
     THEN [status |-> 400, text |-> <<"No \"yes\" swipes recorded">>, body |-> NoBody]
     ELSE [status |-> 200, text |-> <<"No unanimous decisions; sorted yes swipes provided">>,
           body |-> [NoBody EXCEPT !.allResults = sortedSwipes]]

\* A handler whose answer depends on which request asks: the second
\* request gets allResults back to front.
SessionResultByRequest(p, sessionId) ==
  /\ Ready
  /\ req[p].pc = "idle"
  /\ sessionId \in SessionIds /\ Session[sessionId].exists
  /\ UNCHANGED <<Session, User, req>>
  /\ LET out == ComputeResult(Session[sessionId])
         all == out.body.allResults
         rev == [i \in DOMAIN all |-> all[Len(all) + 1 - i]]
     IN res' = Response([Idle EXCEPT !.op = "result", !.sessionId = sessionId],
                        out.status, out.text,
                        [out.body EXCEPT !.allResults = IF p = "p1" THEN all ELSE rev])

\* Field validation, Session.findById and the aggregation of the document
\* it returns.
SessionResult(p, sessionId) ==
  /\ Ready
  /\ req[p].pc = "idle"
  /\ LET r == [Idle EXCEPT !.op = "result", !.sessionId = sessionId]
     IN /\ UNCHANGED <<Session, User, req>>
        /\ IF sessionId = Missing
           THEN res' = Response([Idle EXCEPT !.op = "result"], 400,
                           <<"Session ID is required">>, NoBody)
           ELSE IF sessionId \notin SessionIds \/ ~Session[sessionId].exists
           THEN res' = Response(r, 404, <<"Session doesn't exist">>, NoBody)
           ELSE LET out == ComputeResult(Session[sessionId])
                IN res' = Response(r, out.status, out.text, out.body)

\* ------------------------------------------------------------ the server

\* The response written by the last step leaves the server.
Send ==
  /\ res # NoResponse
  /\ res' = NoResponse
  /\ UNCHANGED <<Session, User, req>>

Titles == {Missing, "Dinner"}
UserIdsSent == Users \cup {Missing, GhostUser}
SessionIdsSent == SessionIds \cup {Missing, GhostSession}
OptionIdsSent == {"A", Missing}
SwipeActionsSent == SwipeActions \cup {Missing}

\* The swipe requests clients send: every request with all four fields, and
\* one request for each field left out.
SwipeRequests ==
  LET all == [sessionId : SessionIdsSent, userId : UserIdsSent,
              optionId : OptionIdsSent, swipeAction : SwipeActionsSent]
      full == [sessionId |-> CHOOSE s \in SessionIds : TRUE,
               userId |-> CHOOSE u \in Users : TRUE,
               optionId |-> "A", swipeAction |-> "yes"]
  IN {b \in all : /\ b.sessionId # Missing /\ b.userId # Missing
                  /\ b.optionId # Missing /\ b.swipeAction # Missing}
     \cup {[full EXCEPT !.sessionId = Missing], [full EXCEPT !.userId = Missing],
           [full EXCEPT !.optionId = Missing], [full EXCEPT !.swipeAction = Missing]}

Step(p) ==
  \/ \E title \in Titles, userId \in UserIdsSent : CreateSession(p, title, userId)
  \/ CreateSessionDoc(p)
  \/ CreateSessionUserSave(p)
  \/ \E sessionId \in SessionIdsSent, userId \in UserIdsSent : JoinSession(p, sessionId, userId)
  \/ JoinSave(p)
  \/ JoinUserSave(p)
  \/ \E b \in SwipeRequests :
       SwipeOption(p, b.sessionId, b.userId, b.optionId, b.swipeAction)
  \/ SwipeSave(p)
  \/ \E sessionId \in SessionIdsSent : SessionResult(p, sessionId)

Next == Send \/ \E p \in Procs : Step(p)

Spec == Init /\ [][Next]_vars


\* ------------------------------------------------------------ membership under store failures

\* The message of the catch block of a handler.
ServerError(op) ==
  CASE op = "create" -> <<"Server error occured while creating session">>
    [] op = "join" -> <<"Server error">>
    [] op = "swipe" -> <<"Server error occured while recording swipe action">>

\* The store operation a request in flight is waiting for (Session.create,
\* session.save() or user.save()) throws: nothing is written, the catch
\* block answers 500 and the request ends where it is, with the writes it
\* has made before left in place.
StoreFails(p) ==
  /\ Ready
  /\ req[p].pc # "idle"
  /\ Reply(p, req, 500, ServerError(req[p].op), NoBody)
  /\ UNCHANGED <<Session, User>>

\* The handlers that write session.users and the users' session lists, with
\* store operations that can throw. The other two handlers write neither.
StepMembership(p) ==
  \/ \E title \in Titles, userId \in UserIdsSent : CreateSession(p, title, userId)
  \/ CreateSessionDoc(p)
  \/ CreateSessionUserSave(p)
  \/ \E sessionId \in SessionIdsSent, userId \in UserIdsSent : JoinSession(p, sessionId, userId)
  \/ JoinSave(p)
  \/ JoinUserSave(p)
  \/ StoreFails(p)

NextMembership == Send \/ \E p \in Procs : StepMembership(p)

SpecMembership == Init /\ [][NextMembership]_vars

\* ------------------------------------------------------------ the aggregator alone

\* Maps of optionId -> vote over Options, keys in every insertion order.
RECURSIVE MapsOver(_)
MapsOver(keys) ==
  IF keys = {} THEN {<<>>}
  ELSE {<<>>} \cup
       UNION {{<<[optionId |-> k, vote |-> v]>> \o m : m \in MapsOver(keys \ {k})} :
                k \in keys, v \in validAction}

RECURSIVE SeqsUpTo(_, _)
SeqsUpTo(S, n) ==
  IF n = 0 THEN {<<>>}
  ELSE LET shorter == SeqsUpTo(S, n - 1)
       IN shorter \cup {Append(q, x) : q \in {r \in shorter : Len(r) = n - 1}, x \in S}

SwipeRecords == {[userId |-> u, optionSwipes |-> m] : u \in Users, m \in MapsOver(Options)}

\* Any stored session the schema allows, within the caps.
InitResult ==
  /\ \E users \in SeqsUpTo(Users, MaxUsers), swipes \in SeqsUpTo(SwipeRecords, MaxSwipes) :
       Session = [s \in SessionIds |->
                    [SeedDoc("Active") EXCEPT !.users = users, !.swipes = swipes,
                                              !.v = Len(users) + Len(swipes)]]
  /\ User = [u \in Users |-> [createdSessions |-> <<>>, joinedSessions |-> <<>>]]
  /\ req = [p \in Procs |-> Idle]
  /\ res = NoResponse

NextResult == Send \/ \E p \in Procs, sessionId \in SessionIdsSent : SessionResult(p, sessionId)

SpecResult == InitResult /\ [][NextResult]_vars


\* ------------------------------------------------------------ properties

TheSession == CHOOSE s \in SessionIds : TRUE

Responded == res # NoResponse
Answered(op, status) == res.req.op = op /\ res.status = status

\* The vote the ledger holds for a user on an option: the entry of the
\* user's record (the one a lookup finds), "none" without record or entry.
VoteOf(session, userId, optionId) ==
  LET idx == FindSwipe(session.swipes, userId)
  IN IF idx = 0 THEN "none" ELSE MapGet(session.swipes[idx].optionSwipes, optionId)

\* The number of swipe records whose vote on an option is yes.
YesCount(session, optionId) ==
  Cardinality({i \in DOMAIN session.swipes :
                 \E k \in DOMAIN session.swipes[i].optionSwipes :
                   /\ session.swipes[i].optionSwipes[k].optionId = optionId
                   /\ session.swipes[i].optionSwipes[k].vote = "yes"})

\* The optionIds some swipe record of the session holds a vote on.
VotedOptions(session) ==
  UNION {{session.swipes[i].optionSwipes[k].optionId :
            k \in DOMAIN session.swipes[i].optionSwipes} : i \in DOMAIN session.swipes}

NoDuplicates(seq) == \A i, j \in DOMAIN seq : seq[i] = seq[j] => i = j

\* C1: in every reachable state a user appears at most once in
\* session.users.
C1_UserAtMostOnce ==
  \A s \in SessionIds : Session[s].exists => NoDuplicates(Session[s].users)

\* C2: in every reachable state session.swipes holds at most one record per
\* user, and a record holds at most one vote per optionId.
C2_OneRecordPerUser ==
  \A s \in SessionIds : Session[s].exists =>
    /\ \A i, j \in DOMAIN Session[s].swipes :
         Session[s].swipes[i].userId = Session[s].swipes[j].userId => i = j
    /\ \A i \in DOMAIN Session[s].swipes :
         \A k, l \in DOMAIN Session[s].swipes[i].optionSwipes :
           Session[s].swipes[i].optionSwipes[k].optionId
             = Session[s].swipes[i].optionSwipes[l].optionId => k = l

\* C3: in every reachable state, every optionId the aggregator reports as
\* unanimous for a session has a current yes vote of every user in
\* session.users.
C3_UnanimousMeansAllYes ==
  \A s \in SessionIds : Session[s].exists =>
    \A o \in Range(ComputeResult(Session[s]).body.unanimousResults) :
      \A u \in Range(Session[s].users) : VoteOf(Session[s], u, o) = "yes"

\* A unanimous result was sent for a session of two members.
C3_Witness ==
  /\ Answered("result", 200)
  /\ res.body.unanimousResults = <<"A">>
  /\ Len(Session[TheSession].users) = 2
  /\ NoDuplicates(Session[TheSession].users)


\* C4 as stated: the aggregator answers with a unanimous result exactly
\* when some optionId of the ledger has a yes-count equal to the size of
\* session.users, and the unanimous set is the set of those optionIds.
C4_UnanimousIffCountIsSize ==
  (Responded /\ res.req.op = "result" /\ res.status \in {200, 400}
     /\ res.req.sessionId \in SessionIds) =>
    LET session == Session[res.req.sessionId]
        all == {o \in VotedOptions(session) : YesCount(session, o) = Len(session.users)}
    IN /\ (res.text = <<"Unanimous decisions found">>) <=> (all # {})
       /\ Range(res.body.unanimousResults) = all

\* C4 amended: the aggregator answers with a unanimous result exactly when
\* some optionId with at least one yes vote has a yes-count equal to the
\* size of session.users, and the unanimous set is the set of those
\* optionIds, each listed once.
C4_UnanimousIffVotedCountIsSize ==
  (Responded /\ res.req.op = "result" /\ res.status \in {200, 400}
     /\ res.req.sessionId \in SessionIds) =>
    LET session == Session[res.req.sessionId]
        all == {o \in Options : /\ YesCount(session, o) = Len(session.users)
                                /\ YesCount(session, o) > 0}
    IN /\ (res.text = <<"Unanimous decisions found">>) <=> (all # {})
       /\ Range(res.body.unanimousResults) = all
       /\ NoDuplicates(res.body.unanimousResults)

\* Two members, yes-counts A=2 and B=1: the unanimous set is [A].
C4_Witness ==
  /\ Answered("result", 200)
  /\ Len(Session[TheSession].users) = 2
  /\ YesCount(Session[TheSession], "A") = 2
  /\ YesCount(Session[TheSession], "B") = 1
  /\ res.body.unanimousResults = <<"A">>


\* The step in which the handler of op sends a response with this status.
Answers(op, status) ==
  res = NoResponse /\ res' # NoResponse /\ res'.req.op = op /\ res'.status = status

\* The step session.save() of a join request of p.
JoinSaves(p) == req[p].op = "join" /\ req[p].pc = "save" /\ req'[p].pc = "usave"

\* The step user.save() of a join request of p, when it does not throw.
JoinUserSaves(p) ==
  /\ req[p].op = "join" /\ req[p].pc = "usave" /\ req'[p].pc = "idle"
  /\ res'.status # 500

\* C5: when the swipes of two different members interleave (both read the
\* session before either saves) and both end with 200, the ledger holds the
\* vote of both. Stated where the first of the two has just been answered
\* and the second, which read earlier, is about to save.
C5_NoVoteLost ==
  Answered("swipe", 200) =>
    \A q \in Procs :
      (/\ req[q].op = "swipe" /\ req[q].pc = "save"
       /\ req[q].sessionId = res.req.sessionId
       /\ req[q].userId # res.req.userId) =>
        LET out == SwipeStore(Session[res.req.sessionId], req[q])
        IN out.ok =>
             /\ VoteOf(out.session, res.req.userId, res.req.optionId) = res.req.swipeAction
             /\ VoteOf(out.session, req[q].userId, req[q].optionId) = req[q].swipeAction

\* C6: when the joins of two different users interleave no join is lost:
\* session.save() of a join puts its user into the stored users, and no
\* step takes a user out of them.
C6_NoJoinLost ==
  [][\A s \in SessionIds : Session[s].exists =>
       /\ \A u \in Users :
            Includes(Session[s].users, u) => Includes(Session'[s].users, u)
       /\ \A p \in Procs :
            (JoinSaves(p) /\ req[p].sessionId = s) =>
              Includes(Session'[s].users, req[p].userId)]_vars

\* A join was answered 200 whose copy of the session lacked another user,
\* and that user was saved first: both had read before either saved. The
\* other join has completed too.
C6_Witness ==
  /\ Answered("join", 200)
  /\ \E u \in Users \ {res.req.userId} :
       /\ Session[res.req.sessionId].users
            = SubSeq(res.body.users, 1, Len(res.body.users) - 1) \o <<u, res.req.userId>>
       /\ Includes(User[u].joinedSessions, res.req.sessionId)

\* C7: RecordSwipe is idempotent. Stated where a swipe has just been
\* answered 200: the same request made again is answered 200 with the same
\* vote map and leaves the ledger as it is.
C7_Idempotent ==
  Answered("swipe", 200) =>
    LET session == Session[res.req.sessionId]
        l == SwipeLocals(session, res.req.userId, res.req.optionId, res.req.swipeAction)
        out == SwipeStore(session, [res.req EXCEPT !.idx = l.idx, !.v = l.v,
                                                   !.optionSwipes = l.optionSwipes,
                                                   !.dirty = l.dirty])
    IN /\ out.ok
       /\ out.session.swipes = session.swipes
       /\ l.optionSwipes = res.body.swipes

\* C8: RecordSwipe is last-write-wins per (user, optionId): the step that
\* answers a swipe 200 leaves the user's record with the vote of the call on
\* that optionId, and every other vote of the ledger as it was.
C8_LastWriteWins ==
  [][Answers("swipe", 200) =>
       LET s == res'.req.sessionId
       IN /\ VoteOf(Session'[s], res'.req.userId, res'.req.optionId) = res'.req.swipeAction
          /\ \A u \in Users, o \in Options :
               <<u, o>> # <<res'.req.userId, res'.req.optionId>> =>
                 VoteOf(Session'[s], u, o) = VoteOf(Session[s], u, o)]_vars

\* C9: a join of an existing user to an existing session is answered 400
\* "Cannot join a <lower-cased status> session" when the status is Completed
\* or Cancelled, and 400 "User is already in the session" when the user is
\* in session.users; neither changes a session or a user.
C9_JoinRejected ==
  [][\A p \in Procs, s \in SessionIds, u \in Users :
       (JoinSession(p, s, u) /\ Session[s].exists) =>
         /\ Session[s].status \in {"Completed", "Cancelled"} =>
              /\ res'.status = 400
              /\ res'.text = <<"Cannot join a",
                               IF Session[s].status = "Completed"
                               THEN "completed" ELSE "cancelled",
                               "session">>
              /\ UNCHANGED <<Session, User, req>>
         /\ (Session[s].status \notin {"Completed", "Cancelled"}
             /\ Includes(Session[s].users, u)) =>
              /\ res'.status = 400
              /\ res'.text = <<"User is already in the session">>
              /\ UNCHANGED <<Session, User, req>>]_vars

\* A join to a cancelled session was rejected.
C9_Witness ==
  /\ Answered("join", 400)
  /\ res.text = <<"Cannot join a", "cancelled", "session">>
  /\ Session[res.req.sessionId].status = "Cancelled"

\* C10: a join that passes all guards goes on to its writes; its
\* session.save() makes session.users one entry longer, the user last, and
\* its user.save() makes the user's joinedSessions one entry longer, the
\* session last.
C10_JoinAppends ==
  [][\A p \in Procs :
       /\ \A s \in SessionIds, u \in Users :
            (/\ JoinSession(p, s, u) /\ Session[s].exists
             /\ Session[s].status \in {"Pending", "Active"}
             /\ ~Includes(Session[s].users, u)) =>
              (req'[p].pc = "save" /\ res' = NoResponse)
       /\ JoinSaves(p) =>
            LET s == req[p].sessionId
            IN /\ Len(Session'[s].users) = Len(Session[s].users) + 1
               /\ Session'[s].users = Append(Session[s].users, req[p].userId)
               /\ User' = User
       /\ JoinUserSaves(p) =>
            LET u == req[p].userId
            IN /\ User'[u].joinedSessions = Append(User[u].joinedSessions, req[p].sessionId)
               /\ \A x \in Users \ {u} : User'[x] = User[x]
               /\ User'[u].createdSessions = User[u].createdSessions
               /\ Session' = Session
               /\ res'.status = 200]_vars

\* A user joined a pending session another user created.
C10_Witness ==
  /\ Answered("join", 200)
  /\ Session[res.req.sessionId].status = "Pending"
  /\ Len(Session[res.req.sessionId].users) = 2
  /\ NoDuplicates(Session[res.req.sessionId].users)
  /\ User[res.req.userId].joinedSessions = <<res.req.sessionId>>

\* The step Session.create of a create request of p.
CreateDocs(p) == req[p].op = "create" /\ req[p].pc = "create" /\ req'[p].pc = "usave"

\* The step user.save() of a create request of p, when it does not throw.
CreateUserSaves(p) ==
  /\ req[p].op = "create" /\ req[p].pc = "usave" /\ req'[p].pc = "idle"
  /\ res'.status # 500

\* C11: a create request with a non-empty title and the id of an existing
\* user goes on to its writes; Session.create stores, under an id that was
\* free, a session with that title, status Pending, users = [userId],
\* createdBy = userId and empty options and swipes; user.save() makes the
\* creator's createdSessions one entry longer, the new session last, and
\* the request is answered 201 with that session.
C11_CreateYields ==
  [][\A p \in Procs :
       /\ \A title \in Titles \ {Missing}, u \in Users :
            CreateSession(p, title, u) =>
              (req'[p].pc = "create" /\ req'[p].title = title /\ req'[p].userId = u
               /\ res' = NoResponse /\ UNCHANGED <<Session, User>>)
       /\ CreateDocs(p) =>
            LET s == req'[p].sessionId
            IN /\ s \in SessionIds /\ ~Session[s].exists
               /\ Session'[s] = [exists |-> TRUE, title |-> req[p].title,
                                 createdBy |-> req[p].userId, users |-> <<req[p].userId>>,
                                 options |-> <<>>, status |-> "Pending", swipes |-> <<>>,
                                 v |-> 0]
               /\ \A x \in SessionIds \ {s} : Session'[x] = Session[x]
               /\ User' = User
       /\ CreateUserSaves(p) =>
            LET u == req[p].userId
            IN /\ User'[u].createdSessions = Append(User[u].createdSessions, req[p].sessionId)
               /\ Len(User'[u].createdSessions) = Len(User[u].createdSessions) + 1
               /\ User'[u].joinedSessions = User[u].joinedSessions
               /\ \A x \in Users \ {u} : User'[x] = User[x]
               /\ Session' = Session
               /\ res'.status = 201
               /\ res'.body.users = <<u>>]_vars

\* A create request was answered 201: the session is there, pending, with
\* its creator as only user, and the creator's createdSessions refers to it.
C11_Witness ==
  /\ Answered("create", 201)
  /\ Session[res.req.sessionId].status = "Pending"
  /\ Session[res.req.sessionId].createdBy = res.req.userId
  /\ Session[res.req.sessionId].users = <<res.req.userId>>
  /\ User[res.req.userId].createdSessions = <<res.req.sessionId>>

\* The first step of a swipe request of p, as every SwipeOption step is: it
\* answers the request or takes it up.
SwipeStarts(p) ==
  /\ res = NoResponse /\ req[p].pc = "idle"
  /\ \/ req'[p].op = "swipe"
     \/ (res' # NoResponse /\ res'.req.op = "swipe")

\* C12: a swipe request with all four fields on an existing session is
\* answered "User is not in session" when userId is not in session.users,
\* and "Invalid swipe action" when the user is in session.users and the vote
\* is neither yes nor no; neither changes a session, a user or a request in
\* flight, so no swipe record is created or changed.
C12_SwipeRejected ==
  [][\A p \in Procs : SwipeStarts(p) =>
       \A s \in SessionIds, u \in Users \cup {GhostUser},
          o \in OptionIdsSent \ {Missing}, a \in SwipeActions :
         (/\ Session[s].exists
          /\ ~Includes(Session[s].users, u) \/ a \notin {"yes", "no"}
          /\ SwipeOption(p, s, u, o, a)) =>
           /\ ~Includes(Session[s].users, u) =>
                /\ res'.status = 404
                /\ res'.text = <<"User is not in session">>
                /\ UNCHANGED <<Session, User, req>>
           /\ (Includes(Session[s].users, u) /\ a \notin {"yes", "no"}) =>
                /\ res'.status = 400
                /\ res'.text = <<"Invalid swipe action">>
                /\ UNCHANGED <<Session, User, req>>]_vars

\* A member who has a swipe record sent a vote that is neither yes nor no
\* and was rejected.
C12_Witness ==
  /\ Answered("swipe", 400)
  /\ res.text = <<"Invalid swipe action">>
  /\ res.req.swipeAction = "maybe"
  /\ Includes(Session[res.req.sessionId].users, res.req.userId)
  /\ FindSwipe(Session[res.req.sessionId].swipes, res.req.userId) # 0

\* The step in which a request that is past its first await ends.
EndsLate(p) == req[p].pc # "idle" /\ req'[p].pc = "idle"

\* C13: a request that is answered with a validation, not-found, conflict
\* or no-data error (400 or 404) has written nothing: the step that sends
\* the answer leaves every session and every user as they are, and no
\* request that has come to its writes is answered with such an error.
C13_ErrorsWriteNothing ==
  [][/\ (res = NoResponse /\ res' # NoResponse /\ res'.status \in {400, 404}) =>
          UNCHANGED <<Session, User>>
     /\ \A p \in Procs : EndsLate(p) => res'.status \notin {400, 404}]_vars

\* A join of a user who is in the session was rejected, in a session that
\* has a member and a swipe record to lose.
C13_Witness ==
  /\ Answered("join", 400)
  /\ res.text = <<"User is already in the session">>
  /\ Len(Session[res.req.sessionId].users) = 2
  /\ Len(Session[res.req.sessionId].swipes) > 0
  /\ \E q \in Procs : req[q].pc # "idle"

\* The optionIds of the ledger with at least one yes vote, each with its
\* yes-count.
YesCounts(session) ==
  {<<o, YesCount(session, o)>> : o \in {x \in Options : YesCount(session, x) > 0}}

\* A result request on an existing session has just been answered.
ResultAnswered ==
  /\ Responded /\ res.req.op = "result"
  /\ res.req.sessionId \in SessionIds
  /\ Session[res.req.sessionId].exists

\* C14: the aggregator answers a session whose ledger holds no yes vote on
\* any option (no records, empty records, or no votes only) with the error
\* "No \"yes\" swipes recorded", and with neither a unanimous nor a ranked
\* list.
C14_NoYesNoData ==
  ResultAnswered =>
    LET session == Session[res.req.sessionId]
    IN (\A o \in Options : YesCount(session, o) = 0) =>
         /\ res.status = 400
         /\ res.text = <<"No \"yes\" swipes recorded">>
         /\ res.body.unanimousResults = <<>>
         /\ res.body.allResults = <<>>

\* The ledger holds two records with no votes only, and the answer was the
\* no-data error.
C14_Witness ==
  /\ Answered("result", 400)
  /\ res.text = <<"No \"yes\" swipes recorded">>
  /\ Len(Session[TheSession].swipes) = 2
  /\ \A i \in DOMAIN Session[TheSession].swipes :
       Session[TheSession].swipes[i].optionSwipes # <<>>

\* C15: in the unanimous and in the ranked answer of the aggregator,
\* allResults holds one pair (optionId, yes-count) for every optionId with
\* a yes vote and no other pair, and the count of every entry is at least
\* the count of the entry after it.
C15_AllResultsSorted ==
  (ResultAnswered /\ res.status = 200) =>
    LET session == Session[res.req.sessionId]
        all == res.body.allResults
    IN /\ Range(all) = YesCounts(session)
       /\ Len(all) = Cardinality(YesCounts(session))
       /\ \A i \in DOMAIN all : i < Len(all) => all[i][2] >= all[i + 1][2]

\* Two members, the Map of counts holds B:1 before A:2, and the answer
\* lists A:2 before B:1 with A unanimous.
C15_Witness ==
  /\ Answered("result", 200)
  /\ Len(Session[TheSession].users) = 2
  /\ CountSwipes(<<>>, Session[TheSession].swipes, 1) = << <<"B", 1>>, <<"A", 2>> >>
  /\ res.body.allResults = << <<"A", 2>>, <<"B", 1>> >>
  /\ res.body.unanimousResults = <<"A">>

C17_NoMembersNoUnanimous ==
  (ResultAnswered /\ Len(Session[res.req.sessionId].users) = 0) =>
    /\ res.body.unanimousResults = <<>>
    /\ res.text # <<"Unanimous decisions found">>

\* A session without users whose ledger holds yes and no votes got the
\* ranked answer.
C17_Witness ==
  /\ Answered("result", 200)
  /\ Session[TheSession].users = <<>>
  /\ YesCount(Session[TheSession], "A") = 2
  /\ VoteOf(Session[TheSession], "u1", "B") = "no"
  /\ res.body.unanimousResults = <<>>

\* The stored session after a whole swipe request (lookup, set, save) of
\* the user on it, with no other request in between.
Swiped(session, userId, optionId, swipeAction) ==
  LET l == SwipeLocals(session, userId, optionId, swipeAction)
  IN SwipeStore(session, [Idle EXCEPT !.op = "swipe", !.pc = "save", !.userId = userId,
                                      !.optionId = optionId, !.swipeAction = swipeAction,
                                      !.idx = l.idx, !.v = l.v,
                                      !.optionSwipes = l.optionSwipes,
                                      !.dirty = l.dirty]).session

\* C18: the scenario. Stated where user U has created session S and a
\* second user V has joined it (S is pending, created by U, users = [U, V],
\* no swipes yet; S is in U's createdSessions and V's joinedSessions): when
\* U and V then each swipe yes on A, one request after the other in either
\* order, S is still pending with users = [U, V] and the aggregator answers
\* with the unanimous list [A].
C18_Scenario ==
  \A s \in SessionIds, U \in Users, V \in Users :
    (/\ U # V
     /\ Session[s].exists
     /\ Session[s].status = "Pending" /\ Session[s].createdBy = U
     /\ Session[s].users = <<U, V>> /\ Session[s].swipes = <<>>
     /\ Includes(User[U].createdSessions, s)
     /\ Includes(User[V].joinedSessions, s)) =>
      \A order \in {<<U, V>>, <<V, U>>} :
        LET first == Swiped(Session[s], order[1], "A", "yes")
            second == Swiped(first, order[2], "A", "yes")
            out == ComputeResult(second)
        IN /\ second.status = "Pending"
           /\ second.users = <<U, V>>
           /\ out.status = 200
           /\ out.body.unanimousResults = <<"A">>

\* C19: the step that answers a swipe 200 returns the user's stored record
\* as it is after the step: the map of the answer is the map of the user's
\* record in the ledger, it holds the vote of the call, and it holds every
\* vote the record held before on another optionId.
C19_ReturnsStoredMap ==
  [][Answers("swipe", 200) =>
       LET s == res'.req.sessionId
           u == res'.req.userId
           idx == FindSwipe(Session'[s].swipes, u)
       IN /\ idx # 0
          /\ res'.body.swipes = Session'[s].swipes[idx].optionSwipes
          /\ MapGet(res'.body.swipes, res'.req.optionId) = res'.req.swipeAction
          /\ \A o \in Options \ {res'.req.optionId} :
               MapGet(res'.body.swipes, o) = VoteOf(Session[s], u, o)]_vars

\* C20: optionId is an opaque key. The answer of the aggregator lists, for
\* exactly the optionIds with a yes vote, the number of swipe records whose
\* vote on the optionId is yes (no votes add nothing); and a swipe of a
\* member with a valid vote goes on to its save although session.options
\* does not hold the optionId.
C20_OpaqueOptionId ==
  [][/\ \A st \in {200, 400} :
          (Answers("result", st) /\ res'.req.sessionId \in SessionIds) =>
            LET session == Session[res'.req.sessionId]
            IN /\ Range(res'.body.allResults) = YesCounts(session)
               /\ Len(res'.body.allResults) = Cardinality(YesCounts(session))
     /\ \A p \in Procs : SwipeStarts(p) =>
          \A s \in SessionIds, u \in Users, o \in OptionIdsSent \ {Missing},
             a \in {"yes", "no"} :
            (/\ Session[s].exists
             /\ Includes(Session[s].users, u)
             /\ SwipeOption(p, s, u, o, a)) =>
              /\ \A i \in DOMAIN Session[s].options : Session[s].options[i].optionId # o
              /\ req'[p].pc = "save" /\ req'[p].optionId = o
              /\ res' = NoResponse]_vars

\* The session declares no option; its ledger holds a yes and a no on A,
\* and the answer lists A with count 1.
C20_Witness ==
  /\ Answered("result", 200)
  /\ Session[res.req.sessionId].options = <<>>
  /\ \E u \in Users, w \in Users :
       /\ VoteOf(Session[res.req.sessionId], u, "A") = "yes"
       /\ VoteOf(Session[res.req.sessionId], w, "A") = "no"
  /\ res.body.allResults = << <<"A", 1>> >>

\* The sessions a user's createdSessions and joinedSessions refer to.
Referenced(u) == Range(User[u].createdSessions) \cup Range(User[u].joinedSessions)

\* C21: in every reachable state, also after a create or join request has
\* failed between its two writes, every session a user's createdSessions or
\* joinedSessions refers to is stored and has the user in session.users. (A
\* session can list a user whose lists lack the session: the witness.)
C21_ReferencedSessionListsUser ==
  \A u \in Users : \A s \in Referenced(u) :
    /\ s \in SessionIds
    /\ Session[s].exists
    /\ Includes(Session[s].users, u)

\* user.save() of a join threw after session.save() had pushed the user:
\* the request was answered 500, the session lists the user and the user's
\* joinedSessions lacks the session, while the creator's createdSessions
\* refers to it.
C21_Witness ==
  /\ Answered("join", 500)
  /\ Includes(Session[res.req.sessionId].users, res.req.userId)
  /\ res.req.sessionId \notin Referenced(res.req.userId)
  /\ \E u \in Users \ {res.req.userId} :
       /\ Session[res.req.sessionId].createdBy = u
       /\ res.req.sessionId \in Referenced(u)
  /\ \A p \in Procs : req[p].pc = "idle"

\* The step session.save() of a swipe request of p.
SwipeSaves(p) == req[p].op = "swipe" /\ req[p].pc = "save" /\ req'[p].pc = "idle"

\* C22: a stored session stays stored under its id with its title,
\* createdBy, status and options, whatever request takes a step; its users
\* only grow at the end, and only in the session.save() of a join on it,
\* which leaves its swipes alone; its swipes only change in the
\* session.save() of a swipe on it, which leaves its users alone; and a
\* result request changes no session and no user.
C22_Frame ==
  [][/\ \A s \in SessionIds : Session[s].exists =>
          /\ Session'[s].exists
          /\ Session'[s].title = Session[s].title
          /\ Session'[s].createdBy = Session[s].createdBy
          /\ Session'[s].status = Session[s].status
          /\ Session'[s].options = Session[s].options
          /\ Len(Session'[s].users) >= Len(Session[s].users)
          /\ SubSeq(Session'[s].users, 1, Len(Session[s].users)) = Session[s].users
          /\ Session'[s].users # Session[s].users =>
               /\ \E p \in Procs : JoinSaves(p) /\ req[p].sessionId = s
               /\ Session'[s].swipes = Session[s].swipes
          /\ Session'[s].swipes # Session[s].swipes =>
               /\ \E p \in Procs : SwipeSaves(p) /\ req[p].sessionId = s
               /\ Session'[s].users = Session[s].users
     /\ \A st \in {200, 400, 404} : Answers("result", st) => UNCHANGED <<Session, User>>
     /\ \A p \in Procs :
          /\ JoinSaves(p) => \A s \in SessionIds \ {req[p].sessionId} : Session'[s] = Session[s]
          /\ SwipeSaves(p) => \A s \in SessionIds \ {req[p].sessionId} : Session'[s] = Session[s]
          /\ JoinUserSaves(p) => Session' = Session]_vars

\* A session created by one user, joined by another and swiped on: still
\* pending, its creator first in users, a vote in its ledger, and a result
\* request just answered.
C22_Witness ==
  /\ Answered("result", 200)
  /\ Session[res.req.sessionId].status = "Pending"
  /\ Session[res.req.sessionId].title = "Dinner"
  /\ Len(Session[res.req.sessionId].users) = 2
  /\ Session[res.req.sessionId].users[1] = Session[res.req.sessionId].createdBy
  /\ Session[res.req.sessionId].users[2] # Session[res.req.sessionId].createdBy
  /\ \E u \in Users : VoteOf(Session[res.req.sessionId], u, "A") = "yes"

====
